---- MODULE Spec2Model ----
(***************************************************************************)
(* Model of the self-healing code assistant (src/src/code_assistant.py):   *)
(* CodeAssistant.solve_task, generate_code, test_rust_code and             *)
(* test_python_code.  Text is modelled as a sequence of one-character      *)
(* strings (task texts) or of opaque tokens (boilerplate, stderr, source). *)
(***************************************************************************)
EXTENDS Integers, Sequences, FiniteSets, TLC

\* ---------------------------------------------------------------- bounds
MaxTaskWords == 2      \* words per task text in the classification inputs
MaxErrLen == 1         \* tokens of standard-error text per child process
MaxMockWords == 2      \* words per task text in requests to the fallback generator
MaxLineWords == 4      \* words per line of a Rust source
MaxRows == 3           \* rows of the messages table
MaxTime == 2           \* readings of the clock
MaxN == 3              \* the argument n of get_recent_messages
MaxDuration == 3       \* days of a trip request
MaxBudgetTens == 60    \* budget of a trip request, in tens of dollars
MaxCalls == 2          \* solve_task calls of one session of the main program

\* ------------------------------------------------------- text primitives
None == <<"<None>">>

\* bool(s) of an Optional[str]: None and "" are falsy
Truthy(s) == s # None /\ s # <<>>

\* str.lower() on the characters that occur in task texts and keywords
LowerChar(c) ==
    CASE c = "R" -> "r" [] c = "U" -> "u" [] c = "S" -> "s" [] c = "T" -> "t"
      [] c = "P" -> "p" [] OTHER -> c

\* the characters [a-zA-Z0-9] among those that occur in task texts
IsAlnum(c) ==
    c \in { "a", "b", "c", "d", "e", "f", "g", "h", "i", "k", "l", "m", "n",
            "o", "p", "q", "r", "s", "t", "u", "w", "y", "z",
            "P", "R", "S", "T", "U" }

Lower(s) == [i \in 1..Len(s) |-> LowerChar(s[i])]

\* sub occurs in s starting at index i
MatchAt(s, sub, i) ==
    /\ i + Len(sub) - 1 <= Len(s)
    /\ \A j \in 1..Len(sub) : s[i + j - 1] = sub[j]

\* Python "sub in s"
Contains(s, sub) == \E i \in 1..(Len(s) + 1) : MatchAt(s, sub, i)

RECURSIVE ReplaceFrom(_, _, _, _)
ReplaceFrom(s, old, new, i) ==
    IF i > Len(s) THEN <<>>
    ELSE IF MatchAt(s, old, i)
         THEN new \o ReplaceFrom(s, old, new, i + Len(old))
         ELSE <<s[i]>> \o ReplaceFrom(s, old, new, i + 1)

\* str.replace(old, new) for a non-empty old: leftmost, non-overlapping
Replace(s, old, new) == ReplaceFrom(s, old, new, 1)

kw_rust == <<"r", "u", "s", "t">>
kw_Rust == <<"R", "u", "s", "t">>
kw_python == <<"p", "y", "t", "h", "o", "n">>
kw_Python == <<"P", "y", "t", "h", "o", "n">>

\* ------------------------------------------------------------ input sets
TaskWords ==
    { kw_rust, kw_Rust, <<"R", "U", "S", "T">>, <<"t">>, <<" ">>, <<"g", "o">> }

RECURSIVE TasksOf(_)
TasksOf(n) ==
    IF n = 0 THEN { <<>> }
    ELSE TasksOf(n - 1) \cup { t \o w : t \in TasksOf(n - 1), w \in TaskWords }

Tasks == TasksOf(MaxTaskWords)

\* the example tasks of main
TaskQuicksort ==
    <<"w", "r", "i", "t", "e", " ", "q", "u", "i", "c", "k", "s", "o", "r",
      "t", " ", "i", "n", " ", "R", "u", "s", "t">>

TaskBST ==
    <<"c", "r", "e", "a", "t", "e", " ", "a", " ", "b", "i", "n", "a", "r",
      "y", " ", "s", "e", "a", "r", "c", "h", " ", "t", "r", "e", "e", " ",
      "i", "n", " ", "P", "y", "t", "h", "o", "n">>

TaskFibonacci ==
    <<"i", "m", "p", "l", "e", "m", "e", "n", "t", " ", "f", "i", "b", "o",
      "n", "a", "c", "c", "i", " ", "w", "i", "t", "h", " ", "m", "e", "m",
      "o", "i", "z", "a", "t", "i", "o", "n", " ", "i", "n", " ", "P", "y",
      "t", "h", "o", "n">>

ExampleTasks == { TaskQuicksort, TaskBST, TaskFibonacci }

\* standard-error texts a child process can emit
ErrTokens == { "E" }

RECURSIVE ErrTexts(_)
ErrTexts(n) ==
    IF n = 0 THEN { <<>> }
    ELSE ErrTexts(n - 1) \cup { e \o <<x>> : e \in ErrTexts(n - 1), x \in ErrTokens }

StdErrs == ErrTexts(MaxErrLen)

\* what one subprocess.run call can do: exit with a return code and a
\* standard-error text, exceed its timeout, or raise another exception
ExcMsg == <<"[Errno 2]">>

Outcomes ==
    { [kind |-> "exit", rc |-> rc, stderr |-> e] : rc \in {0, 1}, e \in StdErrs }
      \cup { [kind |-> "timeout", rc |-> 0 - 1, stderr |-> <<>>],
             [kind |-> "error", rc |-> 0 - 1, stderr |-> <<>>] }

\* source texts the remote completion service can answer with
SrcPlain == <<"print">>
SrcPytest == <<"import", "pytest">>
SrcUnittest == <<"import", "unittest">>

Sources == { SrcPlain, SrcPytest, SrcUnittest }

\* ------------------------------------------------- fallback generator
MockRustQuicksort == <<"fn quicksort", "#[cfg(test)]">>
MockRustHello == <<"fn main", "#[cfg(test)]">>
MockPyQuicksort == <<"def quicksort", "import", "unittest">>
MockPyBST == <<"class BST", "import", "unittest">>
MockPyFibonacci == <<"def fibonacci_memo", "import", "unittest">>
MockPyHello == <<"def hello", "import", "unittest">>

kw_quicksort == <<"q", "u", "i", "c", "k", "s", "o", "r", "t">>
kw_bst ==
    <<"b", "i", "n", "a", "r", "y", " ", "s", "e", "a", "r", "c", "h", " ",
      "t", "r", "e", "e">>
kw_fibonacci == <<"f", "i", "b", "o", "n", "a", "c", "c", "i">>
kw_memoization == <<"m", "e", "m", "o", "i", "z", "a", "t", "i", "o", "n">>

\* the keyword tests applied to the content as written, without lower()
MockCreate_CaseSensitive(content) ==
    LET t == content IN
    IF Contains(t, kw_rust)
    THEN IF Contains(t, kw_quicksort) THEN MockRustQuicksort ELSE MockRustHello
    ELSE IF Contains(t, kw_quicksort) THEN MockPyQuicksort
         ELSE IF Contains(t, kw_bst) THEN MockPyBST
         ELSE IF Contains(t, kw_fibonacci) /\ Contains(t, kw_memoization)
              THEN MockPyFibonacci
              ELSE MockPyHello

\* MockOpenAI.Chat.Completions.create: boilerplate keyed on keywords of the
\* first message's content
MockCreate(content) ==
    LET t == Lower(content) IN
    IF Contains(t, kw_rust)
    THEN IF Contains(t, kw_quicksort) THEN MockRustQuicksort ELSE MockRustHello
    ELSE IF Contains(t, kw_quicksort) THEN MockPyQuicksort
         ELSE IF Contains(t, kw_bst) THEN MockPyBST
         ELSE IF Contains(t, kw_fibonacci) /\ Contains(t, kw_memoization)
              THEN MockPyFibonacci
              ELSE MockPyHello

\* ------------------------------------------------------- generate_code
RustPrompt(task) ==
    <<"\nWrite a complete ">> \o kw_Rust \o <<" program for: ">> \o task
      \o <<"\n\nRequirements: dependencies, #[cfg(test)] tests\n">>

PythonPrompt(task) ==
    <<"\nWrite a complete ">> \o kw_Python \o <<" program for: ">> \o task
      \o <<"\n\nRequirements: imports, tests\n">>

ErrorSection(previous_error) ==
    <<"\n\nIMPORTANT: The previous attempt failed with this error:\n">>
      \o previous_error
      \o <<"\n\nPlease fix this error in your new implementation.\n">>

\* generate_code without the correction section
BuildPrompt_NoFeedback(task, language, previous_error) ==
    IF language = "rust" THEN RustPrompt(task) ELSE PythonPrompt(task)

\* the content of the single user message generate_code submits
BuildPrompt(task, language, previous_error) ==
    LET base_prompt == IF language = "rust" THEN RustPrompt(task)
                       ELSE PythonPrompt(task)
    IN  IF Truthy(previous_error)
        THEN base_prompt \o ErrorSection(previous_error)
        ELSE base_prompt

\* ------------------------------------------------------------- runners
NotInstalled == <<"Rust/Cargo not installed. Install with: curl ...">>
RustTimedOut == <<"Compilation/testing timed out">>
PyTimedOut == <<"Code execution timed out">>
ErrorDiag == <<"Error: ">> \o ExcMsg

\* a child process that was started: its step, how it ended, and its
\* standard-error text when it exited nonzero
Ran(step, out) ==
    [step |-> step, kind |-> out.kind, rc |-> out.rc,
     stderr |-> IF out.kind = "exit" /\ out.rc # 0 THEN out.stderr ELSE <<>>]

\* check_rust_available: the probe succeeds exactly when cargo runs
check_rust_available(cargoNow) == cargoNow

\* the test step reporting a failure without the standard-error text
RustTests_NoStderr(build, test) ==
    IF test.kind = "timeout"
    THEN [passed |-> FALSE, output |-> RustTimedOut,
          steps |-> <<Ran("build", build), Ran("test", test)>>]
    ELSE IF test.kind = "error"
    THEN [passed |-> FALSE, output |-> ErrorDiag,
          steps |-> <<Ran("build", build), Ran("test", test)>>]
    ELSE IF test.rc # 0
    THEN [passed |-> FALSE, output |-> <<"Tests failed:\n">>,
          steps |-> <<Ran("build", build), Ran("test", test)>>]
    ELSE [passed |-> TRUE, output |-> <<"All tests passed!">>,
          steps |-> <<Ran("build", build), Ran("test", test)>>]

\* lines 343-355: the test step of test_rust_code
RustTests(build, test) ==
    IF test.kind = "timeout"
    THEN [passed |-> FALSE, output |-> RustTimedOut,
          steps |-> <<Ran("build", build), Ran("test", test)>>]
    ELSE IF test.kind = "error"
    THEN [passed |-> FALSE, output |-> ErrorDiag,
          steps |-> <<Ran("build", build), Ran("test", test)>>]
    ELSE IF test.rc # 0
    THEN [passed |-> FALSE, output |-> <<"Tests failed:\n">> \o test.stderr,
          steps |-> <<Ran("build", build), Ran("test", test)>>]
    ELSE [passed |-> TRUE, output |-> <<"All tests passed!">>,
          steps |-> <<Ran("build", build), Ran("test", test)>>]

\* the build step going on to the test step after a failed build
RustProject_TestsAnyway(build, test) ==
    IF build.kind = "timeout"
    THEN [passed |-> FALSE, output |-> RustTimedOut,
          steps |-> <<Ran("build", build)>>]
    ELSE IF build.kind = "error"
    THEN [passed |-> FALSE, output |-> ErrorDiag,
          steps |-> <<Ran("build", build)>>]
    ELSE RustTests(build, test)

\* lines 328-360: the try statement of test_rust_code
RustProject(build, test) ==
    IF build.kind = "timeout"
    THEN [passed |-> FALSE, output |-> RustTimedOut,
          steps |-> <<Ran("build", build)>>]
    ELSE IF build.kind = "error"
    THEN [passed |-> FALSE, output |-> ErrorDiag,
          steps |-> <<Ran("build", build)>>]
    ELSE IF build.rc # 0
    THEN [passed |-> FALSE, output |-> <<"Build failed:\n">> \o build.stderr,
          steps |-> <<Ran("build", build)>>]
    ELSE RustTests(build, test)

\* a runner outcome with the temp artifact the call created ("dir", "file"
\* or "none") and the artifacts that exist at that point
WithTemp(r, artifact) ==
    r @@ [temp |-> artifact,
          left |-> IF artifact = "none" THEN {} ELSE {artifact}]

\* the cleanup run only when the body passed
RemoveTemp_OnSuccess(r) == IF r.passed THEN [r EXCEPT !.left = {}] ELSE r

\* leaving the TemporaryDirectory context (line 327) and the finally clause
\* (lines 431-435): reached on every path that leaves the body, they remove
\* the artifact
RemoveTemp(r) == [r EXCEPT !.left = {}]

test_rust_code(cargoNow, build, test) ==
    IF ~check_rust_available(cargoNow)
    THEN WithTemp([passed |-> FALSE, output |-> NotInstalled, steps |-> <<>>],
                  "none")
    ELSE RemoveTemp(WithTemp(RustProject(build, test), "dir"))

\* ------------------------------------------------- create_rust_project
\* a source is the sequence of its lines (code.split('\n') at line 279 and
\* '\n'.join at line 305 are inverse to each other); a line is a sequence
\* of characters
LineWords ==
    { <<"/", "/">>, <<" ">>, <<"=">>, <<"[">>, <<"x">>,
      <<"v", "e", "r", "s", "i", "o", "n">> }

RECURSIVE LinesOf(_)
LinesOf(n) ==
    IF n = 0 THEN { <<>> }
    ELSE LinesOf(n - 1) \cup { l \o w : l \in LinesOf(n - 1), w \in LineWords }

\* a line of code and a comment line, to go before or after any line
OtherLines == { <<"x">>, <<"/", "/">> }

RustSources ==
    { <<a>> : a \in LinesOf(MaxLineWords) }
      \cup { <<a, b>> : a \in LinesOf(MaxLineWords), b \in OtherLines }
      \cup { <<b, a>> : a \in LinesOf(MaxLineWords), b \in OtherLines }

\* str.strip() for lines whose only whitespace is the blank
RECURSIVE LStrip(_)
LStrip(l) == IF l # <<>> /\ Head(l) = " " THEN LStrip(Tail(l)) ELSE l

RECURSIVE RStrip(_)
RStrip(l) ==
    IF l # <<>> /\ l[Len(l)] = " " THEN RStrip(SubSeq(l, 1, Len(l) - 1)) ELSE l

Strip(l) == RStrip(LStrip(l))

StartsWith(l, prefix) == MatchAt(l, prefix, 1)

\* line.strip()[2:].strip()
CargoLine(line) ==
    LET t == Strip(line) IN Strip(SubSeq(t, 3, Len(t)))

\* lines 290-293: the lines appended to the [dependencies] section
IsDependency(line) ==
    /\ StartsWith(Strip(line), <<"/", "/">>)
    /\ Contains(line, <<"=">>) \/ Contains(Lower(line), <<"v", "e", "r", "s", "i", "o", "n">>)
    /\ ~StartsWith(CargoLine(line), <<"[">>)
    /\ Contains(CargoLine(line), <<"=">>)

\* the filter removing only the comment lines that contain '['
IsRemoved_BracketOnly(line) ==
    /\ StartsWith(Strip(line), <<"/", "/">>)
    /\ Contains(line, <<"[">>)

\* line 305: the lines left out of clean_code
IsRemoved(line) ==
    /\ StartsWith(Strip(line), <<"/", "/">>)
    /\ Contains(line, <<"=">>) \/ Contains(line, <<"[">>)

RECURSIVE Keep(_, _)
Keep(lines, i) ==
    IF i > Len(lines) THEN <<>>
    ELSE (IF IsRemoved(lines[i]) THEN <<>> ELSE <<lines[i]>>) \o Keep(lines, i + 1)

RECURSIVE Dependencies(_, _)
Dependencies(lines, i) ==
    IF i > Len(lines) THEN <<>>
    ELSE (IF IsDependency(lines[i]) THEN <<CargoLine(lines[i])>> ELSE <<>>)
           \o Dependencies(lines, i + 1)

NoProject == [called |-> FALSE]

\* lines 275-311: Cargo.toml (the fixed header up to [dependencies], then
\* the dependency lines) and src/main.rs
RustProjectFiles(lines) ==
    [called |-> TRUE, source |-> lines,
     dependencies |-> Dependencies(lines, 1),
     main_rs |-> Keep(lines, 1)]

\* the "pytest" / "unittest" marker test of test_python_code
HasTestMarker(code) == Contains(code, <<"pytest">>) \/ Contains(code, <<"unittest">>)

\* a timeout reported under the runtime-error heading
Raised_AsRuntimeError(out, log) ==
    [passed |-> FALSE,
     output |-> IF out.kind = "timeout" THEN <<"Runtime error:\n">> ELSE ErrorDiag,
     steps |-> log]

\* outcome of a step that raised: the matching except clause
Raised(out, log) ==
    [passed |-> FALSE,
     output |-> IF out.kind = "timeout" THEN PyTimedOut ELSE ErrorDiag,
     steps |-> log]

PyUnittest(log, unt) ==
    LET l == log \o <<Ran("unittest", unt)>> IN
    IF unt.kind # "exit" THEN Raised(unt, l)
    ELSE IF unt.rc # 0
    THEN [passed |-> FALSE, output |-> <<"Tests failed:\n">> \o unt.stderr,
          steps |-> l]
    ELSE [passed |-> TRUE, output |-> <<"Code executed successfully!">>,
          steps |-> l]

\* pytest started whatever the source contains
PyTests_AlwaysPytest(code, log, pyt, unt) ==
    LET l == log \o <<Ran("pytest", pyt)>> IN
    IF pyt.kind # "exit" THEN Raised(pyt, l)
    ELSE IF pyt.rc # 0 THEN PyUnittest(l, unt)
    ELSE [passed |-> TRUE, output |-> <<"Code executed successfully!">>,
          steps |-> l]

\* lines 404-425: the test runners
PyTests(code, log, pyt, unt) ==
    IF HasTestMarker(code)
    THEN LET l == log \o <<Ran("pytest", pyt)>> IN
         IF pyt.kind # "exit" THEN Raised(pyt, l)
         ELSE IF pyt.rc # 0 THEN PyUnittest(l, unt)
         ELSE [passed |-> TRUE, output |-> <<"Code executed successfully!">>,
               steps |-> l]
    ELSE [passed |-> TRUE, output |-> <<"Code executed successfully!">>,
          steps |-> log]

PyRun(code, log, run, pyt, unt) ==
    LET l == log \o <<Ran("run", run)>> IN
    IF run.kind # "exit" THEN Raised(run, l)
    ELSE IF run.rc # 0
    THEN [passed |-> FALSE, output |-> <<"Runtime error:\n">> \o run.stderr,
          steps |-> l]
    ELSE PyTests(code, l, pyt, unt)

\* lines 381-430: the try statement of test_python_code
PySteps(code, syn, run, pyt, unt) ==
    LET l == <<Ran("syntax", syn)>> IN
    IF syn.kind # "exit" THEN Raised(syn, l)
    ELSE IF syn.rc # 0
    THEN [passed |-> FALSE, output |-> <<"Syntax error:\n">> \o syn.stderr,
          steps |-> l]
    ELSE PyRun(code, l, run, pyt, unt)

test_python_code(code, syn, run, pyt, unt) ==
    RemoveTemp(WithTemp(PySteps(code, syn, run, pyt, unt), "file"))

\* ---------------------------------------------------------- solve_task
max_attempts == 3

\* the keyword test without lower()
DetectLanguage_CaseSensitive(text) ==
    IF Contains(text, kw_rust) THEN "rust" ELSE "python"

\* line 441: the language keyword test
DetectLanguage(text) == IF Contains(Lower(text), kw_rust) THEN "rust" ELSE "python"

\* line 447: the keyword rewrite of the downgrade
RewriteTask(text) == Replace(Replace(text, kw_rust, kw_python), kw_Rust, kw_Python)

\* line 455: re.sub(r'[^a-zA-Z0-9]', '_', task.lower())[:30]
Slug(text) ==
    LET l == Lower(text)
        u == [i \in 1..Len(l) |-> IF IsAlnum(l[i]) THEN l[i] ELSE "_"]
    IN  SubSeq(u, 1, IF Len(u) < 30 THEN Len(u) ELSE 30)

FileName(name, n, language) ==
    [slug |-> name, attempt |-> n, ext |-> IF language = "rust" THEN "rs" ELSE "py"]

NoResult == [returned |-> FALSE]
NoFile == [slug |-> <<>>, attempt |-> 0, ext |-> ""]
NoRun ==
    [passed |-> FALSE, output |-> None, steps |-> <<>>, temp |-> "none",
     left |-> {}, code |-> None]

\* the runner outcome together with the source the runner was given
Tested(source, r) == r @@ [code |-> source]

\* ------------------------------------------------------ planning agent
\* amounts are whole dollars; budgets are multiples of 10, so that the
\* 40/30/20/10 per cent shares are whole dollars too
Durations == 1..MaxDuration
Budgets == { 10 * k : k \in 1..MaxBudgetTens }

\* the parameters used when the parse of the request fails, and the ones
\* the fallback client always answers with
FallbackParams ==
    [duration |-> 2, budget_amount |-> 500, destination |-> "Auckland"]

Destinations == { "Auckland", "Queenstown" }

\* price of each offer, in the order of the lists of the mock tools
AccommodationPrices == <<80, 30, 60, 40>>
AttractionPrices == <<25, 20, 35, 80, 30>>
FlightPrices == <<120, 100, 110>>

Range(seq) == { seq[i] : i \in 1..Len(seq) }

\* min(..., key=price) of a non-empty collection
MinPrice(S) == CHOOSE x \in S : \A y \in S : x <= y

\* sorted(..., key=price): insertion into an ascending sequence
RECURSIVE InsertByPrice(_, _)
InsertByPrice(sorted, x) ==
    IF sorted = <<>> THEN <<x>>
    ELSE IF x < Head(sorted) THEN <<x>> \o sorted
         ELSE <<Head(sorted)>> \o InsertByPrice(Tail(sorted), x)

RECURSIVE SortedByPrice(_)
SortedByPrice(seq) ==
    IF seq = <<>> THEN <<>>
    ELSE InsertByPrice(SortedByPrice(SubSeq(seq, 1, Len(seq) - 1)), seq[Len(seq)])

\* get_accommodation: the offers with price <= budget_per_night, where
\* budget_per_night = accommodation_budget / duration
get_accommodation(accommodation_budget, duration) ==
    { p \in Range(AccommodationPrices) : p * duration <= accommodation_budget }

\* lines 180-188: the loop over the attractions in ascending price order
RECURSIVE SelectAttractions(_, _, _, _)
SelectAttractions(offers, remaining, selected, duration) ==
    IF offers = <<>> THEN selected
    ELSE IF Head(offers) <= remaining
         THEN IF Len(selected) + 1 >= duration
              THEN Append(selected, Head(offers))
              ELSE SelectAttractions(Tail(offers), remaining - Head(offers),
                                     Append(selected, Head(offers)), duration)
         ELSE SelectAttractions(Tail(offers), remaining, selected, duration)

RECURSIVE SumSeq(_)
SumSeq(seq) == IF seq = <<>> THEN 0 ELSE Head(seq) + SumSeq(Tail(seq))

NoTrip == [duration |-> 0, budget_amount |-> 0, destination |-> ""]
NoReply == [kind |-> "none", params |-> NoTrip]

\* lines 133-139: the completion call raises, answers with text that is no
\* JSON, or answers with the JSON of trip parameters; the fallback client
\* always answers with the JSON of line 37
ParseReplies(mock) ==
    IF mock THEN { [kind |-> "json", params |-> FallbackParams] }
    ELSE { [kind |-> "raise", params |-> NoTrip],
           [kind |-> "text", params |-> NoTrip] }
           \cup { [kind |-> "json",
                   params |-> [duration |-> d, budget_amount |-> b,
                               destination |-> c]] :
                     d \in Durations, b \in Budgets, c \in Destinations }

\* the fallback taken only when the call raises
TripParams_OnRaiseOnly(r) ==
    IF r.kind = "raise" THEN FallbackParams ELSE r.params

\* lines 132-152: json.loads of the answer, or the fallback parameters when
\* the call or json.loads raises
TripParams(r) ==
    IF r.kind = "json" THEN r.params ELSE FallbackParams
NoItinerary == [returned |-> FALSE, raised |-> FALSE]

\* lines 156-235 of plan_trip for parsed parameters
Itinerary(params) ==
    LET total_budget == params.budget_amount
        duration == params.duration
        accommodation_budget == (total_budget * 4) \div 10
        activities_budget == (total_budget * 3) \div 10
        food_budget == (total_budget * 2) \div 10
        suitable == get_accommodation(accommodation_budget, duration)
    IN  IF suitable = {}
        THEN [returned |-> FALSE, raised |-> TRUE]
        ELSE LET selected_accommodation == MinPrice(suitable)
                 selected_attractions ==
                     SelectAttractions(SortedByPrice(AttractionPrices),
                                       activities_budget, <<>>, duration)
                 selected_flight == MinPrice(Range(FlightPrices))
                 total_cost == selected_accommodation * duration
                                 + SumSeq(selected_attractions)
                                 + selected_flight * 2
                                 + food_budget
             IN  [returned |-> TRUE, raised |-> FALSE,
                  destination |-> params.destination,
                  total_budget |-> total_budget,
                  estimated_cost |-> total_cost,
                  budget_remaining |-> total_budget - total_cost,
                  accommodation |-> selected_accommodation,
                  activities |-> selected_attractions,
                  flights |-> selected_flight * 2]

\* ------------------------------------------------------------- chat bot
Roles == { "user", "assistant" }
Contents == { "a", "b" }
Replies == { "re", "" }

\* n of get_recent_messages when the caller gives none (line 93)
RecentDefault == 10

Message(role, content) == [role |-> role, content |-> content]

\* lines 100-105: the row INSERT adds, stamped with the clock reading t
SaveMessage(st, role, content, t) ==
    Append(st, [role |-> role, content |-> content, timestamp |-> t])

\* time.time(): a reading is never below the one before it and, on a clock
\* that has not ticked in between, is equal to it
Readings(t) == { t, t + 1 }

RECURSIVE PermsOf(_)
PermsOf(S) ==
    IF S = {} THEN { <<>> }
    ELSE UNION { { <<x>> \o q : q \in PermsOf(S \ {x}) } : x \in S }

\* ORDER BY timestamp DESC: the orders of the rowids the query may give;
\* rows with equal timestamps come in an order the query does not fix
DescOrders(st) ==
    { q \in PermsOf(1..Len(st)) :
        \A i \in 1..(Len(q) - 1) : st[q[i]].timestamp >= st[q[i + 1]].timestamp }

Reverse(seq) == [i \in 1..Len(seq) |-> seq[Len(seq) + 1 - i]]

\* LIMIT n of the rows in order q, as role/content dictionaries
Limit(st, q, n) ==
    [i \in 1..(IF n < Len(q) THEN n ELSE Len(q)) |->
        Message(st[q[i]].role, st[q[i]].content)]

\* lines 93-98: the lists get_recent_messages(n) can return
get_recent_messages(st, n) ==
    { Reverse(Limit(st, q, n)) : q \in DescOrders(st) }

NoRecent == [n |-> 0, messages |-> <<>>, called |-> FALSE]
NoChat == [called |-> FALSE]

\* what the completion call of line 126 and the iteration of lines 133-137
\* can do: stream a reply, or raise; the fallback client always replies
ChatOutcomes(mock) ==
    { [kind |-> "ok", text |-> r] : r \in Replies }
      \cup (IF mock THEN {} ELSE { [kind |-> "raise", text |-> "API Error"] })

\* the except clause storing the partial reply before it reports
Failed_SavesReply(st, u, msg, t) ==
    [store |-> SaveMessage(st, "assistant", "", t),
     chat |-> [called |-> TRUE, input |-> u, ok |-> FALSE, raised |-> FALSE,
               printed |-> <<"Error: ", msg>>]]

\* lines 156-157: the completion call or the iteration raised
Failed(st, u, msg, t) ==
    [store |-> st,
     chat |-> [called |-> TRUE, input |-> u, ok |-> FALSE, raised |-> FALSE,
               printed |-> <<"Error: ", msg>>]]

\* lines 132-154: the reply was streamed to the end
Replied(st, u, text, t) ==
    [store |-> SaveMessage(st, "assistant", text, t),
     chat |-> [called |-> TRUE, input |-> u, ok |-> TRUE, raised |-> FALSE,
               printed |-> <<text, "[stats]">>]]

VARIABLES
    is_mock,         \* self.is_mock: the client is the fallback generator
    cargo,           \* host: the cargo toolchain currently runs
    pc,              \* position of the main program / solve_task
    arg,             \* the task text solve_task was called with
    task,            \* local task (rewritten by the downgrade)
    language,        \* local language
    task_name,       \* local task_name
    attempt,         \* local attempt
    previous_error,  \* local previous_error
    code,            \* local code
    filename,        \* local filename
    last,            \* (success, output) of the last runner call and its steps
    result,          \* the dictionary solve_task returned
    request,         \* content of the last message sent to the completion client
    genCalls,        \* generate_code calls of the current solve_task call
    runs,            \* (passed, output) of each runner call of the current call
    calls,           \* solve_task calls made by the main program
    temps,           \* host: temp artifacts of the runners that exist
    files,           \* host: attempt files in the working directory
    reply,           \* PlanningAgent: what the parse request of the last call gave
    trip,            \* PlanningAgent: trip_params of the last plan_trip call
    itinerary,       \* PlanningAgent: what the last plan_trip call gave
    store,           \* ChatBot: the rows of the messages table, by rowid
    now,             \* host: the last reading of time.time()
    recent,          \* ChatBot: what the last get_recent_messages call gave
    sent,            \* ChatBot: messages of the last completion request
    chat_result,     \* ChatBot: how the last chat_stream call ended
    project          \* host: the project the last create_rust_project call wrote

vars ==
    <<is_mock, cargo, pc, arg, task, language, task_name, attempt,
      previous_error, code, filename, last, result, request, genCalls, runs,
      calls, temps, files, reply, trip, itinerary, store, now, recent, sent,
      chat_result, project>>

chatVars == <<store, now, recent, sent, chat_result>>

planVars == <<reply, trip, itinerary>>

assistantVars ==
    <<cargo, pc, arg, task, language, task_name, attempt, previous_error,
      code, filename, last, result, request, genCalls, runs, calls, temps,
      files, project>>

locals == <<task, language, task_name, attempt, previous_error, code, filename>>

Init ==
    /\ is_mock \in BOOLEAN
    /\ cargo \in BOOLEAN
    /\ pc = "idle"
    /\ arg = None
    /\ task = None
    /\ language = ""
    /\ task_name = <<>>
    /\ attempt = 0
    /\ previous_error = None
    /\ code = None
    /\ filename = NoFile
    /\ last = NoRun
    /\ result = NoResult
    /\ request = None
    /\ genCalls = 0
    /\ runs = <<>>
    /\ calls = 0
    /\ temps = {}
    /\ files = {}
    /\ trip = NoTrip
    /\ itinerary = NoItinerary
    /\ reply = NoReply
    /\ project = NoProject
    /\ store = <<>>
    /\ now = 0
    /\ recent = NoRecent
    /\ sent = <<>>
    /\ chat_result = NoChat

\* the host gains or loses the cargo toolchain
CargoChange ==
    /\ cargo' = ~cargo
    /\ UNCHANGED <<chatVars, reply, trip, itinerary, project, calls, temps, files, is_mock, pc, arg, locals, last, result, request, genCalls,
                   runs>>

\* the call keeping the diagnostic of the call before it
solve_task_KeepsError(t) ==
    /\ pc = "idle"
    /\ arg' = t
    /\ LET downgrade == DetectLanguage(t) = "rust" /\ ~check_rust_available(cargo)
       IN  /\ language' = IF downgrade THEN "python" ELSE DetectLanguage(t)
           /\ task' = IF downgrade THEN RewriteTask(t) ELSE t
    /\ task_name' = Slug(task')
    /\ attempt' = 1
    /\ code' = None
    /\ filename' = NoFile
    /\ last' = NoRun
    /\ result' = NoResult
    /\ request' = None
    /\ genCalls' = 0
    /\ runs' = <<>>
    /\ calls' = calls + 1
    /\ pc' = "while"
    /\ UNCHANGED <<previous_error, chatVars, reply, trip, itinerary, project, temps, files, is_mock, cargo>>

\* lines 437-458: the call, the classification and the loop initialisation
solve_task(t) ==
    /\ pc = "idle"
    /\ arg' = t
    /\ LET downgrade == DetectLanguage(t) = "rust" /\ ~check_rust_available(cargo)
       IN  /\ language' = IF downgrade THEN "python" ELSE DetectLanguage(t)
           /\ task' = IF downgrade THEN RewriteTask(t) ELSE t
    /\ task_name' = Slug(task')
    /\ attempt' = 1
    /\ previous_error' = None
    /\ code' = None
    /\ filename' = NoFile
    /\ last' = NoRun
    /\ result' = NoResult
    /\ request' = None
    /\ genCalls' = 0
    /\ runs' = <<>>
    /\ calls' = calls + 1
    /\ pc' = "while"
    /\ UNCHANGED <<chatVars, reply, trip, itinerary, project, temps, files, is_mock, cargo>>

\* the return after the loop reporting the loop counter
LoopTest_CounterAsAttempts ==
    /\ pc = "while"
    /\ IF attempt <= max_attempts
       THEN /\ pc' = "generate"
            /\ UNCHANGED result
       ELSE /\ pc' = "done"
            /\ result' = [returned |-> TRUE, success |-> FALSE,
                          attempts |-> attempt,
                          final_error |-> previous_error,
                          final_code |-> code]
    /\ UNCHANGED <<chatVars, reply, trip, itinerary, project, calls, temps, files, is_mock, cargo, arg, locals, last, request, genCalls, runs>>

\* the return after the loop leaving the source out of the Result
LoopTest_NoFinalCode ==
    /\ pc = "while"
    /\ IF attempt <= max_attempts
       THEN /\ pc' = "generate"
            /\ UNCHANGED result
       ELSE /\ pc' = "done"
            /\ result' = [returned |-> TRUE, success |-> FALSE,
                          attempts |-> max_attempts,
                          final_error |-> previous_error,
                          final_code |-> None]
    /\ UNCHANGED <<chatVars, reply, trip, itinerary, project, calls, temps, files, is_mock, cargo, arg, locals, last, request, genCalls, runs>>

\* line 460 and lines 494-500: the loop test and the return after the loop
LoopTest ==
    /\ pc = "while"
    /\ IF attempt <= max_attempts
       THEN /\ pc' = "generate"
            /\ UNCHANGED result
       ELSE /\ pc' = "done"
            /\ result' = [returned |-> TRUE, success |-> FALSE,
                          attempts |-> max_attempts,
                          final_error |-> previous_error,
                          final_code |-> code]
    /\ UNCHANGED <<chatVars, reply, trip, itinerary, project, calls, temps, files, is_mock, cargo, arg, locals, last, request, genCalls, runs>>

\* line 465 with generate_code (lines 234-273), the completion answers
GenerateOk ==
    /\ pc = "generate"
    /\ LET content == BuildPrompt(task, language, previous_error) IN
       /\ request' = content
       /\ IF is_mock THEN code' = MockCreate(content)
          ELSE code' \in Sources
    /\ genCalls' = genCalls + 1
    /\ pc' = "write"
    /\ UNCHANGED <<chatVars, reply, trip, itinerary, project, calls, temps, files, is_mock, cargo, arg, task, language, task_name, attempt,
                   previous_error, filename, last, result, runs>>

\* line 465 with generate_code up to line 267: the remote completion call
\* raises (the fallback client, installed only by __init__, never raises)
GenerateRaises ==
    /\ pc = "generate"
    /\ ~is_mock
    /\ request' = BuildPrompt(task, language, previous_error)
    /\ genCalls' = genCalls + 1
    /\ pc' = "api_error"
    /\ UNCHANGED <<chatVars, reply, trip, itinerary, project, calls, temps, files, is_mock, cargo, arg, locals, last, result, runs>>

\* the exception in flight: neither generate_code (lines 267-273) nor
\* solve_task (line 465) has a handler, so it leaves solve_task
Propagate ==
    /\ pc = "api_error"
    /\ pc' = "raised"
    /\ UNCHANGED <<chatVars, reply, trip, itinerary, project, calls, temps, files, is_mock, cargo, arg, locals, last, result, request,
                   genCalls, runs>>

\* lines 468-471: the audit file
WriteFile ==
    /\ pc = "write"
    /\ filename' = FileName(task_name, attempt, language)
    /\ files' = files \cup { filename' }
    /\ pc' = "test"
    /\ UNCHANGED <<chatVars, reply, trip, itinerary, project, calls, temps, is_mock, cargo, arg, task, language, task_name, attempt,
                   previous_error, code, last, result, request, genCalls, runs>>

\* a child process that did not exit with code 0
Stops(out) == out.kind # "exit" \/ out.rc # 0

\* lines 475-478: the runner call; each child process the runner starts ends
\* in one of Outcomes (the outcome of a process that is never started is
\* not enumerated)
TestCode ==
    /\ pc = "test"
    /\ \E o1 \in Outcomes :
       \E o2 \in IF Stops(o1) THEN {o1} ELSE Outcomes :
       \E o3 \in IF Stops(o2) \/ language = "rust" THEN {o2} ELSE Outcomes :
       \E o4 \in IF Stops(o3) THEN Outcomes ELSE {o3} :
          last' = Tested(code,
                         IF language = "rust" THEN test_rust_code(cargo, o1, o2)
                         ELSE test_python_code(code, o1, o2, o3, o4))
    /\ temps' = temps \cup last'.left
    /\ runs' = Append(runs, [passed |-> last'.passed, output |-> last'.output])
    /\ pc' = "inspect"
    /\ UNCHANGED <<chatVars, reply, trip, itinerary, project, calls, files, is_mock, cargo, arg, locals, result, request, genCalls>>

\* lines 324 and 375: the availability probe of the runner (cargo --version
\* at line 316, python3 --version at line 366) is a subprocess.run call with
\* no timeout argument; a probe process that never exits is waited for
\* without end
ProbeBlocks ==
    /\ pc = "test"
    /\ pc' = "blocked"
    /\ UNCHANGED <<chatVars, reply, trip, itinerary, project, calls, temps, files, is_mock, cargo, arg, locals, last,
                   result, request, genCalls, runs>>

\* the success return reporting the ceiling instead of the attempt
Inspect_ReportsCeiling ==
    /\ pc = "inspect"
    /\ IF last.passed
       THEN /\ result' = [returned |-> TRUE, success |-> TRUE,
                          attempts |-> max_attempts, final_code |-> code,
                          filename |-> filename, output |-> last.output]
            /\ pc' = "done"
            /\ UNCHANGED <<previous_error, attempt>>
       ELSE /\ previous_error' = last.output
            /\ attempt' = attempt + 1
            /\ pc' = "while"
            /\ UNCHANGED result
    /\ UNCHANGED <<chatVars, reply, trip, itinerary, project, calls, temps, files, is_mock, cargo, arg, task, language, task_name, code,
                   filename, last, request, genCalls, runs>>

\* the failure branch keeping the first diagnostic
Inspect_KeepsFirstError ==
    /\ pc = "inspect"
    /\ IF last.passed
       THEN /\ result' = [returned |-> TRUE, success |-> TRUE,
                          attempts |-> attempt, final_code |-> code,
                          filename |-> filename, output |-> last.output]
            /\ pc' = "done"
            /\ UNCHANGED <<previous_error, attempt>>
       ELSE /\ previous_error' = IF previous_error = None THEN last.output
                                 ELSE previous_error
            /\ attempt' = attempt + 1
            /\ pc' = "while"
            /\ UNCHANGED result
    /\ UNCHANGED <<chatVars, reply, trip, itinerary, project, calls, temps, files, is_mock, cargo, arg, task, language, task_name, code,
                   filename, last, request, genCalls, runs>>

\* the failure branch appending each diagnostic to the ones before it
Inspect_Accumulates ==
    /\ pc = "inspect"
    /\ IF last.passed
       THEN /\ result' = [returned |-> TRUE, success |-> TRUE,
                          attempts |-> attempt, final_code |-> code,
                          filename |-> filename, output |-> last.output]
            /\ pc' = "done"
            /\ UNCHANGED <<previous_error, attempt>>
       ELSE /\ previous_error' = IF previous_error = None THEN last.output
                                 ELSE previous_error \o last.output
            /\ attempt' = attempt + 1
            /\ pc' = "while"
            /\ UNCHANGED result
    /\ UNCHANGED <<chatVars, reply, trip, itinerary, project, calls, temps, files, is_mock, cargo, arg, task, language, task_name, code,
                   filename, last, request, genCalls, runs>>

\* the counter incremented after every test, passed or failed
Inspect_CountsEveryTest ==
    /\ pc = "inspect"
    /\ IF last.passed
       THEN /\ result' = [returned |-> TRUE, success |-> TRUE,
                          attempts |-> attempt, final_code |-> code,
                          filename |-> filename, output |-> last.output]
            /\ pc' = "done"
            /\ attempt' = attempt + 1
            /\ UNCHANGED previous_error
       ELSE /\ previous_error' = last.output
            /\ attempt' = attempt + 1
            /\ pc' = "while"
            /\ UNCHANGED result
    /\ UNCHANGED <<chatVars, reply, trip, itinerary, project, calls, temps, files, is_mock, cargo, arg, task, language, task_name, code,
                   filename, last, request, genCalls, runs>>

\* lines 480-492: the branch on success
Inspect ==
    /\ pc = "inspect"
    /\ IF last.passed
       THEN /\ result' = [returned |-> TRUE, success |-> TRUE,
                          attempts |-> attempt, final_code |-> code,
                          filename |-> filename, output |-> last.output]
            /\ pc' = "done"
            /\ UNCHANGED <<previous_error, attempt>>
       ELSE /\ previous_error' = last.output
            /\ attempt' = attempt + 1
            /\ pc' = "while"
            /\ UNCHANGED result
    /\ UNCHANGED <<chatVars, reply, trip, itinerary, project, calls, temps, files, is_mock, cargo, arg, task, language, task_name, code,
                   filename, last, request, genCalls, runs>>

\* main, lines 522-524 and 536-541: the caller takes the result and goes on
MainNext ==
    /\ pc = "done"
    /\ calls < MaxCalls
    /\ pc' = "idle"
    /\ UNCHANGED <<chatVars, reply, trip, itinerary, project, calls, temps, files, is_mock, cargo, arg, locals, last, result, request, genCalls,
                   runs>>

SolveExample == \E t \in ExampleTasks : solve_task(t)

Next ==
    \/ CargoChange
    \/ SolveExample
    \/ LoopTest
    \/ GenerateOk
    \/ GenerateRaises
    \/ Propagate
    \/ WriteFile
    \/ TestCode
    \/ ProbeBlocks
    \/ Inspect

\* one solve_task call of a new CodeAssistant
Spec == Init /\ [][Next]_vars

\* solve_task on the bounded task texts, followed up to the first
\* generation request
SolveAny == \E t \in Tasks : solve_task(t)

NextClassify ==
    \/ CargoChange
    \/ SolveAny
    \/ LoopTest
    \/ GenerateOk
    \/ GenerateRaises
    \/ Propagate

SpecClassify == Init /\ [][NextClassify]_vars

\* requests to the fallback generator: the prompts generate_code builds for
\* task texts of up to MaxMockWords words, either language, and no failure
\* text, a failure text without keyword or one that names a keyword
MockWords ==
    { kw_rust, <<"R", "U", "S", "T">>, kw_quicksort, kw_bst, kw_fibonacci,
      kw_memoization, <<"g", "o">> }

RECURSIVE MockTasksOf(_)
MockTasksOf(n) ==
    IF n = 0 THEN { <<>> }
    ELSE MockTasksOf(n - 1)
           \cup { t \o w : t \in MockTasksOf(n - 1), w \in MockWords }

MockErrors ==
    { None, <<"Tests failed:\n", "E">>, <<"Runtime error:\n">> \o kw_quicksort }

MockPrompts ==
    { BuildPrompt(t, l, e) :
        t \in MockTasksOf(MaxMockWords), l \in {"rust", "python"}, e \in MockErrors }

\* lines 267-273 with lines 32-219: one completion request answered by the
\* fallback generator
MockRequest ==
    /\ pc = "idle"
    /\ is_mock
    /\ \E p \in MockPrompts :
          /\ request' = p
          /\ code' = MockCreate(p)
    /\ pc' = "mocked"
    /\ UNCHANGED <<chatVars, reply, trip, itinerary, project, calls, temps, files, is_mock, cargo, arg, task, language,
                   task_name, attempt, previous_error, filename, last, result,
                   genCalls, runs>>

\* line 273: the content is handed back; the client keeps nothing of the
\* request and is ready for the next one
MockReturn ==
    /\ pc = "mocked"
    /\ request' = None
    /\ code' = None
    /\ pc' = "idle"
    /\ UNCHANGED <<chatVars, reply, trip, itinerary, project, calls, temps, files, is_mock, cargo, arg, task, language,
                   task_name, attempt, previous_error, filename, last, result,
                   genCalls, runs>>

NextMock == MockRequest \/ MockReturn

\* a CodeAssistant whose constructor installed the fallback client
InitMock == Init /\ is_mock

SpecMock == InitMock /\ [][NextMock]_vars

\* PlanningAgent.plan_trip: the parameters are what the completion service
\* extracted from the request, or FallbackParams when that fails; the
\* fallback client always answers with FallbackParams
plan_trip ==
    /\ reply' \in ParseReplies(is_mock)
    /\ trip' = TripParams(reply')
    /\ itinerary' = Itinerary(trip')
    /\ UNCHANGED <<chatVars, is_mock, assistantVars>>

NextPlan == plan_trip

SpecPlan == Init /\ [][NextPlan]_vars

\* ChatBot.save_message called directly
save_message(role, content) ==
    /\ Len(store) < MaxRows
    /\ \E t \in Readings(now) :
          /\ t <= MaxTime
          /\ now' = t
          /\ store' = SaveMessage(store, role, content, t)
    /\ recent' = NoRecent
    /\ sent' = <<>>
    /\ chat_result' = NoChat
    /\ UNCHANGED <<is_mock, assistantVars, planVars>>

SaveAny == \E r \in Roles, c \in Contents : save_message(r, c)

\* ChatBot.get_recent_messages called directly
GetRecent ==
    /\ \E n \in 0..MaxN :
       \E m \in get_recent_messages(store, n) :
          recent' = [n |-> n, messages |-> m, called |-> TRUE]
    /\ sent' = <<>>
    /\ chat_result' = NoChat
    /\ UNCHANGED <<is_mock, assistantVars, planVars, store, now>>

\* ChatBot.chat_stream, lines 118-157
chat_stream(u) ==
    /\ Len(store) + 2 <= MaxRows
    /\ \E t1 \in Readings(now) :
       \E t2 \in Readings(t1) :
       \E out \in ChatOutcomes(is_mock) :
          LET saved == SaveMessage(store, "user", u, t1) IN
          \E m \in get_recent_messages(saved, RecentDefault) :
             LET end == IF out.kind = "ok" THEN Replied(saved, u, out.text, t2)
                        ELSE Failed(saved, u, out.text, t2)
             IN  /\ t2 <= MaxTime
                 /\ sent' = Append(m, Message("user", u))
                 /\ store' = end.store
                 /\ chat_result' = end.chat
                 /\ now' = IF out.kind = "ok" THEN t2 ELSE t1
    /\ recent' = NoRecent
    /\ UNCHANGED <<is_mock, assistantVars, planVars>>

ChatAny == \E u \in Contents : chat_stream(u)

NextChat == SaveAny \/ GetRecent \/ ChatAny

\* a ChatBot on a messages table (the table outlives the ChatBot: the rows
\* SaveAny adds may as well be those of an earlier session)
SpecChat == Init /\ [][NextChat]_vars

\* CodeAssistant.create_rust_project on one source; the directory it writes
\* to is the new temporary directory of line 327, written to once
create_rust_project ==
    /\ ~project.called
    /\ \E lines \in RustSources : project' = RustProjectFiles(lines)
    /\ UNCHANGED <<chatVars, planVars, is_mock, cargo, pc, arg, locals, last,
                   result, request, genCalls, runs, calls, temps, files>>

NextProject == create_rust_project

SpecProject == Init /\ [][NextProject]_vars

\* main's interactive loop (lines 536-541): a session of up to MaxCalls
\* solve_task calls on one CodeAssistant that uses the fallback generator,
\* in one working directory
SessionTasks == { kw_Rust, <<"R", "U", "S", "T">>, <<"g", "o">> }

InitSession == Init /\ is_mock

SolveSession == \E t \in SessionTasks : solve_task(t)

NextSession ==
    \/ SolveSession
    \/ LoopTest
    \/ GenerateOk
    \/ WriteFile
    \/ TestCode
    \/ Inspect
    \/ MainNext

SpecSession == InitSession /\ [][NextSession]_vars

\* ----------------------------------------------------------- properties
Returned == pc \in {"done", "idle"} /\ result.returned

FailedRuns == { k \in 1..Len(runs) : ~runs[k].passed }

\* C1: when the runner passes for the first time on attempt k (k in 1..3),
\* the Result has success = true and attempts = k, and neither generate_code
\* nor the runner is called again: the passing call is the last runner call,
\* generate_code was called exactly k times, and the next step returns.
C1_PassEndsRun ==
    \A k \in 1..Len(runs) :
        runs[k].passed =>
            /\ k \in 1..max_attempts
            /\ k = Len(runs)
            /\ genCalls = k
            /\ pc \in {"inspect", "done", "idle"}
            /\ pc # "inspect" =>
                  /\ result.returned
                  /\ result.success
                  /\ result.attempts = k

C1_Witness ==
    /\ pc = "done"
    /\ Len(runs) = 3
    /\ runs[3].passed
    /\ result.success
    /\ result.attempts = 3

\* C2: when the runner fails on attempts 1, 2 and 3, the Result has
\* success = false, attempts = 3 and final_error equal to the diagnostic of
\* attempt 3.
C2_ExhaustedResult ==
    (Returned /\ Len(runs) = max_attempts /\ FailedRuns = 1..max_attempts) =>
        /\ ~result.success
        /\ result.attempts = max_attempts
        /\ result.final_error = runs[max_attempts].output

C2_Witness ==
    /\ pc = "done"
    /\ ~result.success
    /\ FailedRuns = 1..3
    /\ runs[1].output # runs[3].output
    /\ runs[2].output # runs[3].output
    /\ result.final_error = runs[3].output

\* C3: for k in 1..2, when attempt k failed with diagnostic d, the content
\* generate_code submits for attempt k+1 contains d verbatim.
C3_FeedbackLoop ==
    (genCalls >= 2 /\ genCalls <= Len(runs) + 1) =>
        /\ ~runs[genCalls - 1].passed
        /\ Contains(request, runs[genCalls - 1].output)

C3_Witness ==
    /\ pc = "write"
    /\ genCalls = 3
    /\ runs[1].output # runs[2].output
    /\ Contains(request, runs[2].output)

\* C5: the attempts field of every Result solve_task returns is at least 1
\* and at most 3.
C5_AttemptsInRange ==
    result.returned => result.attempts >= 1 /\ result.attempts <= 3

C5_Witness ==
    /\ pc = "done"
    /\ result.returned
    /\ ~result.success
    /\ attempt = 4
    /\ result.attempts = 3

\* C4: every solve_task call ends with a Result, whichever error occurs in
\* its attempts: the call never ends by an exception leaving solve_task.
C4_AlwaysResult == pc \in {"done", "raised"} => result.returned

\* C6: when the completion call fails inside generate_code, the attempt goes
\* on to the audit file and the test step with the fallback generator's
\* source, and the failure does not leave solve_task.
C6_FallbackOnApiError ==
    [][(pc = "api_error" /\ pc' # "api_error") =>
          (pc' = "write" /\ code' = MockCreate(request))]_vars

\* the text contains the letters r, u, s, t in a row, in any letter case
RustKeyword(text) ==
    \E i \in 1..Len(text) :
        /\ i + 3 <= Len(text)
        /\ text[i] \in {"r", "R"}
        /\ text[i + 1] \in {"u", "U"}
        /\ text[i + 2] \in {"s", "S"}
        /\ text[i + 3] \in {"t", "T"}

\* C7: classification never raises and resolves the language to rust or
\* python: rust exactly when the task text contains the Rust keyword (in
\* any letter case) and cargo is available at the probe, python otherwise.
C7_Classification ==
    [][(pc = "idle" /\ pc' # "idle") =>
          /\ pc' = "while"
          /\ language' \in {"rust", "python"}
          /\ language' = "rust" <=> (RustKeyword(arg') /\ cargo)]_vars

C7_Witness ==
    /\ pc = "while"
    /\ language = "rust"
    /\ ~Contains(arg, kw_rust)
    /\ ~Contains(arg, kw_Rust)

C7_WitnessDefault ==
    /\ pc = "while"
    /\ language = "python"
    /\ ~RustKeyword(arg)
    /\ Len(arg) > 0

\* C8: when the Rust keyword is recognised in the task text and cargo is
\* unavailable, the language is python and the task text handed to
\* generate_code no longer contains the Rust keyword in any letter case.
C8_DowngradeRewrites ==
    (pc # "idle" /\ RustKeyword(arg) /\ language = "python") =>
        ~RustKeyword(task)

\* C9: no failed attempt and no Failed Result carries the
\* 'Rust/Cargo not installed' diagnostic, however cargo comes and goes.
C9_NotInstalledNeverSurfaces ==
    /\ \A k \in 1..Len(runs) : runs[k].output # NotInstalled
    /\ (result.returned /\ ~result.success) => result.final_error # NotInstalled

\* the named step was started and exited with code 0
StepOk(name) ==
    \E i \in 1..Len(last.steps) :
        /\ last.steps[i].step = name
        /\ last.steps[i].kind = "exit"
        /\ last.steps[i].rc = 0

ExitedNonzero(i) == last.steps[i].kind = "exit" /\ last.steps[i].rc # 0

RequiredStepsOk ==
    IF language = "rust" THEN StepOk("build") /\ StepOk("test")
    ELSE /\ StepOk("syntax")
         /\ StepOk("run")
         /\ HasTestMarker(code) => (StepOk("pytest") \/ StepOk("unittest"))

\* C10 as stated: the runner passes only if every required step succeeded,
\* and whenever any step exits nonzero it returns (false, d) with d
\* containing that step's standard-error text.
C10_EveryNonzeroStepFails ==
    pc = "inspect" =>
        /\ last.passed => RequiredStepsOk
        /\ \A i \in 1..Len(last.steps) :
              ExitedNonzero(i) =>
                  /\ ~last.passed
                  /\ Contains(last.output, last.steps[i].stderr)

\* C10 amended: the runner passes only if build and test (Rust), or syntax
\* check, execution and, with a test marker in the source, pytest or else
\* unittest (Python) exited 0; whenever a step other than pytest exits
\* nonzero it returns (false, d) with d containing that step's
\* standard-error text; a nonzero pytest is followed by the unittest step.
C10_UniformOutcome ==
    pc = "inspect" =>
        /\ last.passed => RequiredStepsOk
        /\ \A i \in 1..Len(last.steps) :
              ExitedNonzero(i) =>
                  IF last.steps[i].step = "pytest"
                  THEN /\ i < Len(last.steps)
                       /\ last.steps[i + 1].step = "unittest"
                  ELSE /\ ~last.passed
                       /\ Contains(last.output, last.steps[i].stderr)

C10_Witness ==
    /\ pc = "inspect"
    /\ Len(last.steps) = 4
    /\ ExitedNonzero(3)
    /\ ExitedNonzero(4)
    /\ last.steps[4].stderr = <<"E">>
    /\ last.output = <<"Tests failed:\n", "E">>

\* C11: in test_rust_code the test step is started only after the build
\* step exited 0; a build that exits nonzero gives (false, 'Build failed' +
\* the build's standard-error text) and no test step.
C11_TestOnlyAfterBuild ==
    (pc = "inspect" /\ language = "rust") =>
        /\ \A i \in 1..Len(last.steps) :
              last.steps[i].step = "test" =>
                  /\ i = 2
                  /\ last.steps[1].step = "build"
                  /\ last.steps[1].kind = "exit"
                  /\ last.steps[1].rc = 0
        /\ (Len(last.steps) >= 1 /\ ExitedNonzero(1)) =>
              /\ Len(last.steps) = 1
              /\ ~last.passed
              /\ last.output = <<"Build failed:\n">> \o last.steps[1].stderr

C11_Witness ==
    /\ pc = "inspect"
    /\ language = "rust"
    /\ Len(last.steps) = 1
    /\ ExitedNonzero(1)
    /\ last.output = <<"Build failed:\n", "E">>

TimeoutDiags == { RustTimedOut, PyTimedOut }

FailureHeadings ==
    { "Build failed:\n", "Syntax error:\n", "Runtime error:\n", "Tests failed:\n" }

LastTimedOut ==
    /\ Len(last.steps) >= 1
    /\ last.steps[Len(last.steps)].kind = "timeout"

\* C12: when a child-process step of the runner exceeds its timeout the
\* runner returns (false, d) with d a timeout diagnostic that is no
\* build-failure, syntax-error, runtime-error or test-failure diagnostic, and
\* solve_task counts the attempt like any failed attempt.
C12_TimeoutCounts ==
    [][(pc = "inspect" /\ LastTimedOut /\ pc' # pc) =>
          /\ ~last.passed
          /\ last.output \in TimeoutDiags
          /\ last.output[1] \notin FailureHeadings
          /\ attempt' = attempt + 1
          /\ previous_error' = last.output
          /\ pc' = "while"]_vars

C12_Witness ==
    /\ pc = "done"
    /\ ~result.success
    /\ result.attempts = 3
    /\ \A k \in 1..3 : runs[k].output \in TimeoutDiags

C14_NeverBlocks == pc # "blocked"

\* C15: a task ends in exactly one terminal state: every solve_task call
\* that ends has produced one Result, either Succeeded or Failed, and once
\* the Result exists no further generation, file write or test step happens
\* for the task.
C15_ExactlyOneTerminal ==
    [][/\ pc' \in {"done", "raised"} =>
             /\ result'.returned
             /\ result'.success \in BOOLEAN
       /\ (pc \in {"done", "raised"} /\ result.returned) =>
             /\ result' = result
             /\ genCalls' = genCalls
             /\ runs' = runs
             /\ files' = files]_vars

\* C17 as stated: when attempts 1 and 2 both fail, the generation request
\* for attempt 3 contains the diagnostic of attempt 1 as well as the
\* diagnostic of attempt 2.
C17_AccumulatedErrors ==
    (genCalls = 3 /\ Len(runs) >= 2) =>
        /\ Contains(request, runs[1].output)
        /\ Contains(request, runs[2].output)

\* C17 amended: when attempts 1 and 2 both fail, the generation request for
\* attempt 3 is the base prompt followed by one correction section that
\* quotes the diagnostic of attempt 2 and nothing of attempt 1.
C17_LastErrorOnly ==
    (genCalls = 3 /\ Len(runs) >= 2) =>
        /\ ~runs[1].passed
        /\ ~runs[2].passed
        /\ request = (IF language = "rust" THEN RustPrompt(task)
                      ELSE PythonPrompt(task)) \o ErrorSection(runs[2].output)

C17_Witness ==
    /\ pc = "test"
    /\ genCalls = 3
    /\ runs[1].output # runs[2].output
    /\ ~Contains(request, runs[1].output)
    /\ Contains(request, runs[2].output)

\* C18: final_code of the Result is the source of the deciding attempt: on
\* success the source generated in the attempt whose test passed, on failure
\* the source generated in attempt 3, never the source of an earlier attempt
\* (last.code is the source handed to the most recent runner call, and each
\* runner call follows the generation of its own attempt).
C18_FinalCodeOfDecidingAttempt ==
    /\ pc = "inspect" => (last.code = code /\ genCalls = Len(runs))
    /\ result.returned =>
          /\ genCalls = Len(runs)
          /\ result.final_code = last.code
          /\ result.final_code \in Sources \cup { MockCreate(request) }
          /\ IF result.success
             THEN last.passed /\ result.attempts = Len(runs)
             ELSE ~last.passed /\ Len(runs) = 3

C18_Witness ==
    /\ pc = "done"
    /\ ~is_mock
    /\ ~result.success
    /\ Len(runs) = 3
    /\ result.final_code = SrcUnittest
    /\ last.code = SrcUnittest

\* C16: over any sequence of solve_task calls no two attempts (of the same
\* task, of a repeated task, or of two different task texts) are written to
\* the same file name <slug>_attempt_<n>.<ext>, so no attempt's audit file
\* is overwritten by another attempt.
C16_UniqueFileNames ==
    [][(pc = "write" /\ pc' = "test") => filename' \notin files]_vars

MockKeywords == { kw_rust, kw_quicksort, kw_bst, kw_fibonacci, kw_memoization }

\* the keywords a prompt text contains, letter case ignored as in create
KeywordSet(p) == { k \in MockKeywords : Contains(Lower(p), k) }

\* one source per keyword subset
KeyedAnswer(ks) ==
    IF kw_rust \in ks
    THEN IF kw_quicksort \in ks THEN MockRustQuicksort ELSE MockRustHello
    ELSE IF kw_quicksort \in ks THEN MockPyQuicksort
         ELSE IF kw_bst \in ks THEN MockPyBST
         ELSE IF {kw_fibonacci, kw_memoization} \subseteq ks
              THEN MockPyFibonacci
              ELSE MockPyHello

HasEmbeddedTest(src) ==
    Contains(src, <<"#[cfg(test)]">>) \/ Contains(src, <<"unittest">>)

\* C19: the fallback generator is deterministic and keyed on keywords only:
\* any two requests whose prompt text contains the same subset of the
\* keywords rust, quicksort, binary search tree, fibonacci, memoization get
\* the same source, whatever failure text the prompt carries, and every
\* source it returns contains an embedded test. (The answer to every
\* request is KeyedAnswer of the request's keyword subset, a function of
\* that subset alone, so requests with equal subsets get equal answers.)
C19_KeyedOnKeywords ==
    pc = "mocked" =>
        /\ code = KeyedAnswer(KeywordSet(request))
        /\ HasEmbeddedTest(code)

C19_Witness ==
    /\ pc = "mocked"
    /\ Contains(request, <<"Runtime error:\n">> \o kw_quicksort)
    /\ Contains(request, <<"R", "U", "S", "T">>)
    /\ Contains(request, kw_Python)
    /\ code = MockRustQuicksort

\* C20: for every trip request with duration >= 1 and budget_amount > 0 for
\* which plan_trip returns an itinerary, estimated_cost (accommodation for
\* all nights + selected activities + return flights + the 20% food share)
\* is at most total_budget.
C20_WithinBudget ==
    (itinerary.returned /\ trip.duration >= 1 /\ trip.budget_amount > 0) =>
        itinerary.estimated_cost <= itinerary.total_budget

\* the last k rows of the table in the order they were saved
LastSaved(k) ==
    [i \in 1..k |-> Message(store[Len(store) - k + i].role,
                            store[Len(store) - k + i].content)]

\* C21: after any sequence of save_message calls, get_recent_messages(n)
\* returns exactly min(n, number of stored messages) messages, the n most
\* recently saved ones in the order they were saved, its last element being
\* the most recently saved message.
C21_RecentInSavedOrder ==
    recent.called =>
        LET k == IF recent.n < Len(store) THEN recent.n ELSE Len(store) IN
        /\ Len(recent.messages) = k
        /\ recent.messages = LastSaved(k)

\* C22: if the completion call raises during chat_stream, the error is
\* reported as 'Error: <message>', no exception reaches the caller, no
\* assistant message is added to the store, and the user message saved
\* before the call remains stored.
C22_ErrorReported ==
    [][(chat_result'.called /\ ~chat_result'.ok) =>
          /\ chat_result'.printed = <<"Error: ", "API Error">>
          /\ ~chat_result'.raised
          /\ Len(store') = Len(store) + 1
          /\ SubSeq(store', 1, Len(store)) = store
          /\ store'[Len(store')].role = "user"
          /\ store'[Len(store')].content = chat_result'.input]_vars

C22_Witness ==
    /\ chat_result.called
    /\ ~chat_result.ok
    /\ Len(store) = 2
    /\ store[1].role = "assistant"
    /\ store[2] = [role |-> "user", content |-> "b", timestamp |-> now]

\* C30: in chat_stream the message list sent to the completion service
\* ends with the new user input and contains it exactly once, and each
\* chat_stream call adds exactly one user row to the store, plus one
\* assistant row only when the completion call succeeds.
C30_InputSentOnce ==
    [][chat_result'.called =>
          LET new == Message("user", chat_result'.input) IN
          /\ Len(sent') >= 1
          /\ sent'[Len(sent')] = new
          /\ Cardinality({ i \in 1..Len(sent') : sent'[i] = new }) = 1
          /\ Len(store') = Len(store) + (IF chat_result'.ok THEN 2 ELSE 1)
          /\ store'[Len(store) + 1].role = "user"
          /\ chat_result'.ok => store'[Len(store) + 2].role = "assistant"]_vars

\* C23: if the completion call of plan_trip raises, or its response text is
\* not valid JSON, plan_trip uses the fallback trip parameters (Auckland,
\* duration 2, budget_amount 500) and returns an itinerary with destination
\* 'Auckland' and total_budget 500 instead of propagating the error.
C23_FallbackParameters ==
    reply.kind \in {"raise", "text"} =>
        /\ trip = FallbackParams
        /\ itinerary.returned
        /\ ~itinerary.raised
        /\ itinerary.destination = "Auckland"
        /\ itinerary.total_budget = 500

C23_Witness ==
    /\ reply.kind = "text"
    /\ ~is_mock
    /\ itinerary.returned
    /\ itinerary.destination = "Auckland"
    /\ itinerary.estimated_cost = 405

\* C24: retry controller transitions: after the runner reports fail at
\* attempt n the controller moves to Generating for attempt n+1 iff n < 3
\* and to Failed iff n = 3; a failed test never leads to Succeeded; and
\* Generating always leads to Testing of the source just generated.
C24_RetryTransitions ==
    [][pc' # pc =>
          /\ (pc = "inspect" /\ ~last.passed) =>
                /\ pc' = "while"
                /\ attempt' = attempt + 1
                /\ result' = result
          /\ (pc = "while" /\ attempt > 1) =>
                /\ pc' = "generate" <=> attempt - 1 < 3
                /\ (pc' = "done" /\ ~result'.success) <=> attempt - 1 = 3
          /\ pc = "generate" => pc' = "write"
          /\ pc = "write" => pc' = "test"
          /\ (pc = "test" /\ pc' = "inspect") => last'.code = code]_vars

\* C25 as stated: the attempt counter of a run starts at 1, never
\* decreases, changes only by +1 and only immediately after a failed test,
\* and in every reachable state of solve_task its value is at most 3.
C25_CounterAtMostCeiling ==
    [][/\ (pc = "idle" /\ pc' # "idle") => attempt' = 1
       /\ pc # "idle" =>
             \/ attempt' = attempt
             \/ attempt' = attempt + 1 /\ pc = "inspect" /\ ~last.passed
       /\ pc' # "idle" => attempt' <= max_attempts]_vars

\* C25 amended: the counter starts at 1, never decreases, changes only by
\* +1 and only immediately after a failed test; it is at most 3 while an
\* attempt is in progress and is 4 exactly after the third failed test,
\* where the loop exits and the Failed Result reports attempts = 3.
C25_CounterAtMostCeilingPlusOne ==
    [][/\ (pc = "idle" /\ pc' # "idle") => attempt' = 1
       /\ pc # "idle" =>
             \/ attempt' = attempt
             \/ attempt' = attempt + 1 /\ pc = "inspect" /\ ~last.passed
       /\ pc' # "idle" =>
             /\ attempt' <= max_attempts + 1
             /\ attempt' = max_attempts + 1 <=>
                   /\ pc' \in {"while", "done"}
                   /\ Len(runs') = max_attempts
                   /\ ~last'.passed
             /\ pc' \in {"generate", "api_error", "raised", "write", "test",
                          "blocked", "inspect"} => attempt' <= max_attempts
             /\ result'.returned => result'.attempts <= max_attempts]_vars

C25_Witness ==
    /\ pc = "while"
    /\ attempt = 4
    /\ Len(runs) = 3
    /\ ~result.returned

\* C26: attempts are strictly serial: the steps of attempt n happen in the
\* order generate, write audit file, test, inspect outcome, each exactly
\* once; the generate step of attempt n+1 starts only after the test of
\* attempt n has returned; and when solve_task returns, the number of
\* generate_code calls equals the number of runner calls equals
\* Result.attempts.
C26_StrictlySerial ==
    [][pc' # pc =>
          /\ (pc = "while" /\ pc' = "generate") =>
                /\ genCalls = attempt - 1
                /\ Len(runs) = attempt - 1
          /\ pc = "generate" =>
                /\ pc' = "write"
                /\ genCalls' = attempt
          /\ pc = "write" =>
                /\ pc' = "test"
                /\ filename'.attempt = attempt
          /\ pc = "test" =>
                /\ pc' = "inspect"
                /\ Len(runs') = attempt
          /\ pc = "inspect" => pc' \in {"while", "done"}
          /\ result'.returned =>
                /\ genCalls' = Len(runs')
                /\ Len(runs') = result'.attempts]_vars

ExitedZero(i) == last.steps[i].kind = "exit" /\ last.steps[i].rc = 0

\* C27: step protocol of test_python_code: the syntax check runs first; the
\* program is executed only if the syntax check exited 0; pytest is invoked
\* only if execution exited 0 and the source contains 'pytest' or
\* 'unittest', never for source without such a marker; unittest is invoked
\* only if pytest exited nonzero; and the result is (false, 'Tests
\* failed...') exactly when both test runners exited nonzero.
C27_PythonStepProtocol ==
    (pc = "inspect" /\ language = "python") =>
        LET s == last.steps IN
        /\ Len(s) >= 1
        /\ s[1].step = "syntax"
        /\ \A i \in 1..Len(s) :
              /\ s[i].step = "syntax" => i = 1
              /\ s[i].step = "run" => (i = 2 /\ ExitedZero(1))
              /\ s[i].step = "pytest" =>
                    /\ i = 3
                    /\ s[2].step = "run"
                    /\ ExitedZero(2)
                    /\ HasTestMarker(last.code)
              /\ s[i].step = "unittest" =>
                    /\ i = 4
                    /\ s[3].step = "pytest"
                    /\ ExitedNonzero(3)
        /\ ~HasTestMarker(last.code) =>
              \A i \in 1..Len(s) : s[i].step \notin {"pytest", "unittest"}
        /\ (~last.passed /\ last.output[1] = "Tests failed:\n") <=>
              (Len(s) = 4 /\ ExitedNonzero(3) /\ ExitedNonzero(4))

C27_Witness ==
    /\ pc = "inspect"
    /\ language = "python"
    /\ attempt = 2
    /\ Len(last.steps) = 4
    /\ ExitedNonzero(3)
    /\ ExitedNonzero(4)
    /\ last.output[1] = "Tests failed:\n"

NameChars == { "x", "v", "e", "r", "s", "i", "o", "n" }

IsComment(line) == StartsWith(Strip(line), <<"/", "/">>)

IsCode(line) == ~IsComment(line)

\* a comment line '// name = value': after the slashes a name, an equals
\* sign and a value that is not blank
NameValueForm(line) ==
    /\ IsComment(line)
    /\ LET c == CargoLine(line) IN
       \E k \in 1..Len(c) :
       \E e \in (k + 1)..Len(c) :
          /\ \A j \in 1..k : c[j] \in NameChars
          /\ \A j \in (k + 1)..(e - 1) : c[j] = " "
          /\ c[e] = "="
          /\ Strip(SubSeq(c, e + 1, Len(c))) # <<>>

\* C28: create_rust_project moves dependency declarations out of the
\* source: every comment line '// name = value' is added to [dependencies]
\* and is absent from the source written to main.rs, every line added to
\* the manifest is one that was removed from the source, and every
\* non-comment source line is written to main.rs unchanged and in its
\* original order.
C28_DependenciesMoved ==
    project.called =>
        LET src == project.source
            deps == project.dependencies
            main == project.main_rs
        IN  /\ \A i \in 1..Len(src) :
                  NameValueForm(src[i]) =>
                      /\ CargoLine(src[i]) \in Range(deps)
                      /\ src[i] \notin Range(main)
            /\ \A j \in 1..Len(deps) :
                  \E i \in 1..Len(src) :
                      /\ IsComment(src[i])
                      /\ CargoLine(src[i]) = deps[j]
                      /\ src[i] \notin Range(main)
            /\ SelectSeq(main, IsCode) = SelectSeq(src, IsCode)
            /\ \A j \in 1..Len(main) : main[j] \in Range(src)

C28_Witness ==
    /\ project.called
    /\ project.source = << <<"x">>, <<"/", "/", "x", "=", "x">> >>
    /\ project.dependencies = << <<"x", "=", "x">> >>
    /\ project.main_rs = << <<"x">> >>

\* the generation request without a correction instruction
BasePrompt == IF language = "rust" THEN RustPrompt(task) ELSE PythonPrompt(task)

\* C29: no diagnostic leaks between tasks: in every solve_task call of a
\* session the generation request of attempt 1 is the base prompt without a
\* correction instruction, and the request of a later attempt quotes only
\* the diagnostic of the attempt before it in the same call (runs holds the
\* test runs of the current call only), never one of an earlier call.
C29_NoDiagnosticLeak ==
    /\ genCalls = 0 => request = None
    /\ genCalls = 1 => request = BasePrompt
    /\ genCalls > 1 =>
          /\ Len(runs) >= genCalls - 1
          /\ request = BuildPrompt(task, language, runs[genCalls - 1].output)

\* attempt 1 of the second call of a session whose first call had a failed
\* attempt (it wrote the audit files of two attempts)
C29_Witness ==
    /\ calls = 2
    /\ pc = "write"
    /\ genCalls = 1
    /\ Cardinality(files) >= 2
    /\ request = BasePrompt

====
